---- MODULE Spec2Model ----
(***************************************************************************)
(* Model of the kanban backend of src/backend/src/main.rs: four handlers   *)
(* (get_tasks, create_task, update_task, delete_task) over one MongoDB     *)
(* collection of Task documents.  Every storage call is one atomic step;   *)
(* update_task is two steps (update_one, then find_one) and other requests *)
(* run between them.                                                       *)
(***************************************************************************)
EXTENDS Integers, Sequences, FiniteSets, TLC

VARIABLES
    store,     \* the tasks collection, in scan order
    now,       \* chrono::Utc::now().timestamp_millis()
    inflight,  \* per update_task handler: where it is, and its path parameter
    last,      \* the step taken last: route, request and response
    observe    \* whether in-flight updates also carry their body and race flag

vars == <<store, now, inflight, last, observe>>

(* ------------------------------ bounds --------------------------------- *)

\* The wall clock runs over 0..MaxClock milliseconds.
MaxClock == 1

\* The collection holds at most MaxTasks documents.
MaxTasks == 2

\* update_task handler instances that can be between their two storage calls.
Handlers == {"h1", "h2"}

\* Request inputs.
Texts == {"a", "b"}
UpdateTexts == {"b"}
UpdateColumns == {"active", "archived"}

\* The columns the listing knows, and one it does not.
Columns == {"todo", "active", "completed", "archived"}

(* ------------------------------ data ----------------------------------- *)

\* Option<T>: None is <<>>, Some(v) is <<v>>.
None == <<>>
Some(v) == <<v>>
IsSome(o) == Len(o) = 1
Unwrap(o) == o[1]
Opt(S) == {None} \cup {Some(v) : v \in S}

\* format!("task-{}", millis): the prefix followed by the number.
TaskIdOf(millis) == <<"task-", millis>>

\* The ObjectId the driver assigns on insert; its value is opaque.
ObjectId == "oid"

\* struct Task
Task(id, task_id, text, column) ==
    [id |-> id, taskId |-> task_id, text |-> text, column |-> column]

\* struct TasksResponse
TasksResponse(todo, active, completed) ==
    [todo |-> todo, active |-> active, completed |-> completed]

EmptyTasks == TasksResponse(<<>>, <<>>, <<>>)

\* struct CreateTaskRequest as the client sends it: serde keeps `text`
\* and drops every other key of the JSON body.
CreateBodies == [text : Texts, column : Opt({"active"})]
CreateTaskRequest(json) == [text |-> json.text]

\* struct UpdateTaskRequest
UpdateTaskRequest == [text : Opt(UpdateTexts), column : Opt(UpdateColumns)]

\* Path parameters: every id the clock can generate, and one it cannot.
PathIds == {TaskIdOf(n) : n \in 0..(MaxClock + 1)}

NoTid == <<>>
NoRequest == [text |-> None, column |-> None]

(* --------------------------- the collection ---------------------------- *)

\* doc! { "taskId": task_id }
Filter(task_id) == [taskId |-> task_id]

Matches(d, filter) == d.taskId = filter.taskId

\* Position of the first document the filter matches, in scan order; 0 if none.
FirstMatch(s, filter) ==
    IF \E i \in 1..Len(s) : Matches(s[i], filter)
    THEN CHOOSE i \in 1..Len(s) :
            /\ Matches(s[i], filter)
            /\ \A j \in 1..(i - 1) : ~Matches(s[j], filter)
    ELSE 0

\* collection.insert_one: the driver fills in _id and appends the document.
InsertOne(s, task) == Append(s, [task EXCEPT !.id = Some(ObjectId)])

\* { "$set": update_doc } applied to one document.
ApplySet(d, update_doc) ==
    [f \in DOMAIN d |->
        IF f \in DOMAIN update_doc THEN update_doc[f] ELSE d[f]]

\* update_one called with upsert: a missing document is inserted.
UpdateOne_Upsert(s, filter, update_doc) ==
    LET i == FirstMatch(s, filter) IN
    IF i = 0
    THEN [matched_count |-> 0,
          store |-> Append(s, ApplySet(Task(Some(ObjectId), filter.taskId, "", ""),
                                       update_doc))]
    ELSE [matched_count |-> 1,
          store |-> [s EXCEPT ![i] = ApplySet(s[i], update_doc)]]

\* collection.update_one: the first matching document is updated.
UpdateOne(s, filter, update_doc) ==
    LET i == FirstMatch(s, filter) IN
    IF i = 0
    THEN [matched_count |-> 0, store |-> s]
    ELSE [matched_count |-> 1,
          store |-> [s EXCEPT ![i] = ApplySet(s[i], update_doc)]]

\* collection.find_one
FindOne(s, filter) ==
    LET i == FirstMatch(s, filter) IN
    IF i = 0 THEN None ELSE Some(s[i])

\* collection.delete_one: the first matching document is removed.
DeleteOne(s, filter) ==
    LET i == FirstMatch(s, filter) IN
    IF i = 0
    THEN [deleted_count |-> 0, store |-> s]
    ELSE [deleted_count |-> 1,
          store |-> SubSeq(s, 1, i - 1) \o SubSeq(s, i + 1, Len(s))]

\* collection.find(None, None): a cursor over every document in scan order;
\* reading the record at a position in read_errors yields Err.
Cursor(s, read_errors) ==
    [i \in 1..Len(s) |-> [ok |-> i \notin read_errors, task |-> s[i]]]

(* ------------------------------ get_tasks ------------------------------ *)

\* The loop body with the "completed" arm pushing to the wrong list.
Push_WrongList(tasks, result) ==
    IF ~result.ok THEN tasks
    ELSE IF result.task.column = "todo"
         THEN [tasks EXCEPT !.todo = Append(@, result.task)]
    ELSE IF result.task.column = "active"
         THEN [tasks EXCEPT !.active = Append(@, result.task)]
    ELSE IF result.task.column = "completed"
         THEN [tasks EXCEPT !.active = Append(@, result.task)]
    ELSE tasks

\* The body of the loop: one cursor item.
Push(tasks, result) ==
    IF ~result.ok THEN tasks
    ELSE IF result.task.column = "todo"
         THEN [tasks EXCEPT !.todo = Append(@, result.task)]
    ELSE IF result.task.column = "active"
         THEN [tasks EXCEPT !.active = Append(@, result.task)]
    ELSE IF result.task.column = "completed"
         THEN [tasks EXCEPT !.completed = Append(@, result.task)]
    ELSE tasks

RECURSIVE Scan(_, _)
\* while let Some(result) = cursor.next().await
Scan(cursor, tasks) ==
    IF cursor = <<>> THEN tasks
    ELSE Scan(Tail(cursor), Push(tasks, Head(cursor)))

(* ------------------------------ responses ------------------------------ *)

\* The step a handler took last: its route (op), the request, the storage
\* call it made and whether that call failed, and the response (status 0:
\* the handler has not answered yet).
NoEvent ==
    [op |-> "none", call |-> "none", status |-> 0, error |-> "",
     message |-> "", tid |-> NoTid, req |-> NoRequest, no_fields |-> FALSE,
     task |-> None, tasks |-> EmptyTasks, read_errors |-> {},
     failed |-> FALSE, raced |-> FALSE]

Idle == [pc |-> "idle", tid |-> NoTid, req |-> NoRequest, raced |-> FALSE]

InitStore ==
    /\ store = <<>>
    /\ now = 0
    /\ inflight = [h \in Handlers |-> Idle]
    /\ last = NoEvent

Init == InitStore /\ observe = FALSE

\* The same program, each in-flight update observed with its body and
\* with whether a delete of its taskId succeeded since its update_one.
InitRace == InitStore /\ observe = TRUE

\* chrono::Utc::now() advances.
Tick ==
    /\ now < MaxClock
    /\ now' = now + 1
    /\ UNCHANGED <<store, inflight, last, observe>>

get_tasks ==
    /\ \E ok \in BOOLEAN, read_errors \in SUBSET (1..Len(store)) :
        LET ev == [NoEvent EXCEPT !.op = "get_tasks", !.call = "find"] IN
        IF ok
        THEN last' = [ev EXCEPT
                        !.status = 200,
                        !.read_errors = read_errors,
                        !.tasks = Scan(Cursor(store, read_errors), EmptyTasks)]
        ELSE /\ read_errors = {}
             /\ last' = [ev EXCEPT
                        !.status = 500,
                        !.error = "Failed to fetch tasks", !.failed = TRUE]
    /\ UNCHANGED <<store, now, inflight, observe>>

\* create_task filing the new task under the wrong column.
NewTask_WrongColumn(task_data) ==
    Task(None, TaskIdOf(now), task_data.text, "active")

\* The Task create_task builds from the request.
NewTask(task_data) ==
    Task(None, TaskIdOf(now), task_data.text, "todo")

create_task ==
    \E json \in CreateBodies, ok \in BOOLEAN :
        LET task_data == CreateTaskRequest(json)
            new_task == NewTask(task_data)
            ev == [NoEvent EXCEPT !.op = "create_task",
                                  !.call = "insert_one", !.req = json]
        IN
        /\ Len(store) < MaxTasks
        /\ IF ok
           THEN /\ store' = InsertOne(store, new_task)
                /\ last' = [ev EXCEPT !.status = 201,
                                      !.task = Some(new_task)]
           ELSE /\ store' = store
                /\ last' = [ev EXCEPT !.status = 500,
                                      !.error = "Failed to create task",
                                      !.failed = TRUE]
        /\ UNCHANGED <<now, inflight, observe>>

\* update_doc built with text.unwrap_or_default(): text is always set.
BuildUpdateDoc_AlwaysText(task_data) ==
    LET with_text == IF IsSome(task_data.text)
                     THEN "text" :> Unwrap(task_data.text)
                     ELSE "text" :> ""
    IN IF IsSome(task_data.column)
       THEN ("column" :> Unwrap(task_data.column)) @@ with_text
       ELSE with_text

\* update_doc: one entry per field the body holds.
BuildUpdateDoc(task_data) ==
    LET with_text == IF IsSome(task_data.text)
                     THEN "text" :> Unwrap(task_data.text)
                     ELSE <<>>
    IN IF IsSome(task_data.column)
       THEN ("column" :> Unwrap(task_data.column)) @@ with_text
       ELSE with_text

\* update_task without its is_empty() check.
IsEmptyDoc_Never(update_doc) == FALSE

\* update_doc.is_empty()
IsEmptyDoc(update_doc) == DOMAIN update_doc = {}

\* The server hands a request to a handler that is not in flight (the
\* handlers are interchangeable).
Dispatch == CHOOSE h \in Handlers : inflight[h].pc = "idle"

\* update_task up to and including collection.update_one.
update_task ==
    \E task_id \in PathIds, task_data \in UpdateTaskRequest, ok \in BOOLEAN :
        LET update_doc == BuildUpdateDoc(task_data)
            result == UpdateOne(store, Filter(task_id), update_doc)
            ev == [NoEvent EXCEPT
                     !.op = "update_task", !.tid = task_id,
                     !.no_fields = (task_data = NoRequest)]
        IN
        /\ \E h \in Handlers : inflight[h].pc = "idle"
        /\ UNCHANGED <<now, observe>>
        /\ IF IsEmptyDoc(update_doc)
           THEN /\ ok
                /\ last' = [ev EXCEPT !.status = 400,
                                      !.error = "No fields to update"]
                /\ UNCHANGED <<store, inflight>>
           ELSE IF ~ok
           THEN /\ last' = [ev EXCEPT !.call = "update_one",
                                      !.status = 500,
                                      !.error = "Failed to update task",
                                      !.failed = TRUE]
                /\ UNCHANGED <<store, inflight>>
           ELSE IF result.matched_count = 0
           THEN /\ store' = result.store
                /\ last' = [ev EXCEPT !.call = "update_one",
                                      !.status = 404,
                                      !.error = "Task not found"]
                /\ UNCHANGED inflight
           ELSE /\ store' = result.store
                /\ inflight' = [inflight EXCEPT ![Dispatch] =
                                  [pc |-> "find_one", tid |-> task_id,
                                   req |-> IF observe THEN task_data
                                                      ELSE NoRequest,
                                   raced |-> FALSE]]
                /\ last' = [ev EXCEPT !.call = "update_one",
                                      !.req = task_data]

\* The refetch with its Err arm answering like Ok(None).
update_task_refetch_ErrAsNone(h) ==
    \E ok \in BOOLEAN :
        LET me == inflight[h]
            found == FindOne(store, Filter(me.tid))
            ev == [NoEvent EXCEPT
                     !.op = "update_task", !.call = "find_one",
                     !.tid = me.tid, !.req = me.req, !.raced = me.raced]
        IN
        /\ me.pc = "find_one"
        /\ inflight' = [inflight EXCEPT ![h] = Idle]
        /\ UNCHANGED <<store, now, observe>>
        /\ IF ~ok
           THEN last' = [ev EXCEPT !.status = 404,
                                   !.error = "Task not found after update",
                                   !.failed = TRUE]
           ELSE IF IsSome(found)
           THEN last' = [ev EXCEPT !.status = 200, !.task = found]
           ELSE last' = [ev EXCEPT !.status = 404,
                                   !.error = "Task not found after update"]

\* update_task from collection.find_one to the response.
update_task_refetch(h) ==
    \E ok \in BOOLEAN :
        LET me == inflight[h]
            found == FindOne(store, Filter(me.tid))
            ev == [NoEvent EXCEPT
                     !.op = "update_task", !.call = "find_one",
                     !.tid = me.tid, !.req = me.req, !.raced = me.raced]
        IN
        /\ me.pc = "find_one"
        /\ inflight' = [inflight EXCEPT ![h] = Idle]
        /\ UNCHANGED <<store, now, observe>>
        /\ IF ~ok
           THEN last' = [ev EXCEPT !.status = 500,
                                   !.error = "Failed to fetch updated task",
                                   !.failed = TRUE]
           ELSE IF IsSome(found)
           THEN last' = [ev EXCEPT !.status = 200, !.task = found]
           ELSE last' = [ev EXCEPT !.status = 404,
                                   !.error = "Task not found after update"]

delete_task ==
    \E task_id \in PathIds, ok \in BOOLEAN :
        LET result == DeleteOne(store, Filter(task_id))
            ev == [NoEvent EXCEPT !.op = "delete_task",
                                  !.call = "delete_one", !.tid = task_id]
        IN
        /\ UNCHANGED <<now, observe>>
        /\ IF ~ok
           THEN /\ last' = [ev EXCEPT !.status = 500,
                                      !.error = "Failed to delete task",
                                      !.failed = TRUE]
                /\ UNCHANGED <<store, inflight>>
           ELSE IF result.deleted_count = 0
           THEN /\ store' = result.store
                /\ last' = [ev EXCEPT !.status = 404,
                                      !.error = "Task not found"]
                /\ UNCHANGED inflight
           ELSE /\ store' = result.store
                /\ last' = [ev EXCEPT !.status = 200,
                              !.message = "Task deleted successfully"]
                \* observation only: the updates this delete ran in the
                \* middle of
                /\ inflight' = [h \in Handlers |->
                      IF /\ observe
                         /\ inflight[h].pc = "find_one"
                         /\ inflight[h].tid = task_id
                      THEN [inflight[h] EXCEPT !.raced = TRUE]
                      ELSE inflight[h]]

Next ==
    \/ Tick
    \/ get_tasks
    \/ create_task
    \/ update_task
    \/ \E h \in Handlers : update_task_refetch(h)
    \/ delete_task

\* The server: requests arrive in any order, an update's two storage calls
\* interleave with every other request.
Spec == Init /\ [][Next]_vars

SpecRace == InitRace /\ [][Next]_vars

(* ----------------------- listing any collection ------------------------ *)

\* The documents a collection can hold, however they got there.
StoredTasks ==
    {Task(Some(ObjectId), TaskIdOf(n), t, c) :
        n \in 0..MaxClock, t \in Texts, c \in Columns}

Stores == UNION {[1..n -> StoredTasks] : n \in 0..MaxTasks}

InitList ==
    /\ store \in Stores
    /\ now = 0
    /\ inflight = [h \in Handlers |-> Idle]
    /\ last = NoEvent
    /\ observe = FALSE

NextList == get_tasks

\* get_tasks applied to every collection content.
SpecList == InitList /\ [][NextList]_vars

(* ------------------------------ properties ----------------------------- *)

HasTask(s, task_id) == \E i \in 1..Len(s) : s[i].taskId = task_id

InSeq(d, s) == \E k \in 1..Len(s) : s[k] = d

\* The document a request for task_id acts on: the first one with that id.
Target(s, task_id) ==
    CHOOSE i \in 1..Len(s) :
        /\ s[i].taskId = task_id
        /\ \A j \in 1..(i - 1) : s[j].taskId # task_id

RECURSIVE ReadOk(_, _)
\* The documents of s whose read succeeded, in scan order.
ReadOk(s, read_errors) ==
    IF s = <<>> THEN <<>>
    ELSE LET n == Len(s) IN
         ReadOk(SubSeq(s, 1, n - 1), read_errors)
            \o (IF n \in read_errors THEN <<>> ELSE <<s[n]>>)

IsTodo(d) == d.column = "todo"
IsActive(d) == d.column = "active"
IsCompleted(d) == d.column = "completed"
Recognized(d) == IsTodo(d) \/ IsActive(d) \/ IsCompleted(d)

\* What a get_tasks issued now would answer when every read succeeds.
Listing(s) == Scan(Cursor(s, {}), EmptyTasks)

\* The step just taken is a handler's, not the clock's.
HandlerStep == now' = now

\* C1: no two stored task documents have the same taskId.
C1_TaskIdsUnique ==
    \A i, j \in 1..Len(store) :
        i # j => store[i].taskId # store[j].taskId

\* C2: a 200 answer of get_tasks holds, in scan order, in todo exactly the
\* read tasks whose column is "todo", in active those with "active", in
\* completed those with "completed"; each recognized task is listed once,
\* and a task with any other column is in none of the three.
C2_ListingPartitions ==
    (last.op = "get_tasks" /\ last.status = 200) =>
        LET read == ReadOk(store, last.read_errors)
            lists == last.tasks
        IN
        /\ lists.todo = SelectSeq(read, IsTodo)
        /\ lists.active = SelectSeq(read, IsActive)
        /\ lists.completed = SelectSeq(read, IsCompleted)
        /\ Len(lists.todo) + Len(lists.active) + Len(lists.completed)
              = Cardinality({i \in 1..Len(read) : Recognized(read[i])})
        /\ \A i \in 1..Len(read) :
              ~Recognized(read[i]) =>
                  /\ ~InSeq(read[i], lists.todo)
                  /\ ~InSeq(read[i], lists.active)
                  /\ ~InSeq(read[i], lists.completed)
        /\ (last.read_errors = {} => read = store)

C2_Witness ==
    /\ last.op = "get_tasks" /\ last.status = 200
    /\ last.read_errors = {}
    /\ Len(store) = 2
    /\ store[1].column = "archived"
    /\ store[2].column = "completed"
    /\ last.tasks = TasksResponse(<<>>, <<>>, <<store[2]>>)

\* C3: an update_task whose body has neither text nor column answers 400
\* "No fields to update" for every taskId, makes no storage call and leaves
\* the store as it was.
C3_NoFieldsRejected ==
    [][(HandlerStep /\ last'.op = "update_task" /\ last'.no_fields) =>
          /\ last'.status = 400
          /\ last'.error = "No fields to update"
          /\ last'.call = "none"
          /\ store' = store
          /\ inflight' = inflight]_vars

C3_Witness ==
    /\ last.op = "update_task" /\ last.no_fields
    /\ last.status = 400
    /\ HasTask(store, last.tid)
    /\ Len(store) = 2

\* C4: an update_one on an existing taskId sets, in the first document with
\* that taskId, exactly the fields the body holds; its other fields and
\* every other document stay as they were; after a body {column: "active"}
\* the listing has that document in active and not in todo or completed.
C4_UpdateSetsOnlyGivenFields ==
    [][(/\ HandlerStep
        /\ last'.call = "update_one"
        /\ ~last'.failed
        /\ HasTask(store, last'.tid)) =>
          LET i == Target(store, last'.tid)
              req == last'.req
          IN
          /\ last'.status = 0
          /\ Len(store') = Len(store)
          /\ \A j \in 1..Len(store) : j # i => store'[j] = store[j]
          /\ store'[i].taskId = store[i].taskId
          /\ store'[i].id = store[i].id
          /\ store'[i].text = IF IsSome(req.text) THEN Unwrap(req.text)
                                                  ELSE store[i].text
          /\ store'[i].column = IF IsSome(req.column) THEN Unwrap(req.column)
                                                      ELSE store[i].column
          /\ req.column = Some("active") =>
                /\ InSeq(store'[i], Listing(store').active)
                /\ ~InSeq(store'[i], Listing(store').todo)
                /\ ~InSeq(store'[i], Listing(store').completed)]_vars

C4_Witness ==
    /\ last.call = "update_one" /\ last.status = 0
    /\ last.req = [text |-> None, column |-> Some("active")]
    /\ Len(store) = 2
    /\ store[1].taskId = last.tid
    /\ store[1].column = "active" /\ store[1].text = "b"
    /\ store[2].column = "todo"
    /\ InSeq(store[1], Listing(store).active)

\* C5: once delete_task for T has answered 200, no document with taskId T
\* is left: a listing holds none and a second delete of T answers 404.
C5_DeletedIsGone ==
    (last.call = "delete_one" /\ last.status = 200) =>
        /\ ~HasTask(store, last.tid)
        /\ DeleteOne(store, Filter(last.tid)).deleted_count = 0

\* C6: with storage reachable and no document with taskId T, update_task
\* (non-empty body) and delete_task for T answer 404 "Task not found" and
\* leave the store as it was.
C6_MissingTaskNotFound ==
    [][(/\ HandlerStep
        /\ last'.call \in {"update_one", "delete_one"}
        /\ ~last'.failed
        /\ ~HasTask(store, last'.tid)) =>
          /\ last'.status = 404
          /\ last'.error = "Task not found"
          /\ store' = store]_vars

C6_Witness ==
    /\ last.call = "update_one"
    /\ last.status = 404
    /\ ~HasTask(store, last.tid)
    /\ Len(store) = 2

\* C7: a successful create_task appends one document with the request's
\* text and column "todo" whatever column the client sent, changes no
\* other document and answers 201 with that document (without _id); on an
\* empty store the listing is then that task alone, in todo.
C7_CreateAddsOneTodoTask ==
    [][(HandlerStep /\ last'.call = "insert_one" /\ ~last'.failed) =>
          LET n == Len(store)
              d == store'[n + 1]
          IN
          /\ last'.status = 201
          /\ Len(store') = n + 1
          /\ \A i \in 1..n : store'[i] = store[i]
          /\ d.text = last'.req.text
          /\ d.column = "todo"
          /\ d.id = Some(ObjectId)
          /\ last'.task = Some([d EXCEPT !.id = None])
          /\ n = 0 => Listing(store') = TasksResponse(<<d>>, <<>>, <<>>)]_vars

C7_Witness ==
    /\ last.call = "insert_one" /\ last.status = 201
    /\ last.req = [text |-> "b", column |-> Some("active")]
    /\ Len(store) = 1
    /\ store[1].column = "todo" /\ store[1].text = "b"
    /\ Listing(store).todo = store

\* C8: a 200 answer of update_task carries the path's taskId and, for each
\* field the body holds, the body's value.
C8_ResponseCarriesUpdate ==
    (observe /\ last.op = "update_task" /\ last.status = 200) =>
        /\ IsSome(last.task)
        /\ Unwrap(last.task).taskId = last.tid
        /\ IsSome(last.req.text) =>
              Unwrap(last.task).text = Unwrap(last.req.text)
        /\ IsSome(last.req.column) =>
              Unwrap(last.task).column = Unwrap(last.req.column)

\* C9: when the refetch itself succeeds, update_task answers 404 "Task not
\* found after update" exactly when a delete of its taskId succeeded between
\* its update_one and its find_one, and then no document with that taskId
\* is in the store.
C9_NotFoundAfterUpdateIffRaced ==
    (observe /\ last.call = "find_one" /\ ~last.failed) =>
        /\ (last.status = 404 /\ last.error = "Task not found after update")
              <=> last.raced
        /\ last.status = 404 => ~HasTask(store, last.tid)

\* C10 (states): every answer carries a status its route allows; the status
\* is 500 exactly when the storage call of that step failed; a 500 of
\* get_tasks carries no task; a 200 of get_tasks lists every recognized task
\* that was read and skips the records whose read failed; an update in
\* flight can always take its refetch step and answer.
C10_Answers ==
    /\ last.op = "get_tasks" => last.status \in {200, 500}
    /\ last.op = "create_task" => last.status \in {201, 500}
    /\ last.op = "delete_task" => last.status \in {200, 404, 500}
    /\ last.op = "update_task" =>
          \/ last.status \in {200, 400, 404, 500}
          \/ /\ last.status = 0
             /\ last.call = "update_one"
             /\ \E h \in Handlers :
                   inflight[h].pc = "find_one" /\ inflight[h].tid = last.tid
    /\ last.status = 500 <=> last.failed
    /\ (last.op = "get_tasks" /\ last.status = 500) => last.tasks = EmptyTasks
    /\ (last.op = "get_tasks" /\ last.status = 200) =>
          LET read == ReadOk(store, last.read_errors) IN
          /\ Len(read) = Len(store) - Cardinality(last.read_errors)
          /\ \A i \in 1..Len(store) :
                (i \notin last.read_errors /\ Recognized(store[i])) =>
                    \/ InSeq(store[i], last.tasks.todo)
                    \/ InSeq(store[i], last.tasks.active)
                    \/ InSeq(store[i], last.tasks.completed)
          /\ Len(last.tasks.todo) + Len(last.tasks.active)
                + Len(last.tasks.completed)
                = Cardinality({i \in 1..Len(read) : Recognized(read[i])})
    /\ \A h \in Handlers :
          inflight[h].pc = "find_one" => ENABLED update_task_refetch(h)

\* C10 (steps): a failed storage call leaves the store as it was.
C10_FailedCallChangesNothing ==
    (HandlerStep /\ last'.failed) => store' = store

\* C10: every request is answered with a status of its route, 500 exactly
\* on a storage failure, and a failed storage call changes nothing.
C10_StorageFailureIs500 ==
    []C10_Answers /\ [][C10_FailedCallChangesNothing]_vars

C10_Witness ==
    /\ last.op = "get_tasks" /\ last.status = 200
    /\ last.read_errors = {1}
    /\ Len(store) = 2
    /\ IsTodo(store[1]) /\ IsTodo(store[2])
    /\ last.tasks = TasksResponse(<<store[2]>>, <<>>, <<>>)

====
